---- MODULE Spec2Model ----
(***************************************************************************)
(* Model of FileTransferAssistant/src/transfer/manager.py: TransferItem    *)
(* and TransferManager (queue, background worker thread, file and          *)
(* directory copiers, callback registry, progress aggregation).            *)
(*                                                                         *)
(* One controlling caller thread invokes the public methods; every worker  *)
(* thread created by start() runs _process_queue.  A step of a thread is   *)
(* one statement of the source (one line of get_overall_progress), so the  *)
(* interleavings of the caller with the worker are among the ones the      *)
(* interpreter allows; a method of TransferItem runs as one step.  Clock   *)
(* values (start_time, end_time) are not modelled; a callback either       *)
(* returns or raises an Exception.  A file's content is kept relative to   *)
(* the source's bytes, and no other process touches the files.             *)
(*                                                                         *)
(* TransferWorker of FileTransferAssistant/src/ui/main_window.py, the      *)
(* window's own copying thread with pause(), resume() and stop(), is       *)
(* modelled separately (SpecUi); it shares nothing with the manager.       *)
(***************************************************************************)
EXTENDS Integers, Sequences, FiniteSets, TLC

\* ---------------------------------------------------------------- bounds
MaxItems    == 2   \* add_transfer calls in one run
MaxThreads  == 2   \* threads start() may create in one run
MaxChunks   == 2   \* chunks a source file may hold
MaxLevels   == 1   \* directory levels os.walk may yield
MaxFiles    == 2   \* files per directory level
MaxHandlers == 2   \* callbacks registered in one run
BusItems    == 1   \* add_transfer calls in a run with callbacks (SpecBus)
PollItems   == 1   \* add_transfer calls in a run with polling (SpecObserve)
UiFiles     == 2   \* length of TransferWorker.files (SpecUi)

\* ------------------------------------------------------------ input sets
Sources  == {"s1"}
Dests    == {"d1", "d2"}
Channels == {"progress", "complete", "error", "start", "cancel"}
EventTypes == Channels \cup {"bogus"}      \* add_callback accepts any string
HandlerKinds == {"returns", "raises"}      \* what a callback does when called

None == "None"

\* mutant: cancellation is reported with the message of an I/O error
Cancelled_as_oserror == "OSError"

\* reasons carried by the exceptions the copiers raise
Cancelled      == "Transfer cancelled"
SizeMismatch   == "File size mismatch after copy"
ChecksumFailed == "Checksum verification failed"
MkdirFailed    == "Failed to create directory"
OSErrorMsg     == "OSError"
AlreadyExists  == "File already exists"

VARIABLES
    transfers,            \* every TransferItem constructed, in construction order
    queue,                \* self.queue: FIFO of <<transfer_id, item>>
    active_transfers,     \* self.active_transfers: transfer_id -> item
    completed_transfers,  \* self.completed_transfers
    failed_transfers,     \* self.failed_transfers
    stop_event,           \* self._stop_event
    worker_thread,        \* self._worker_thread (0 is None)
    callbacks,            \* self._callbacks: channel -> list of callbacks
    config,               \* self.config: [verify_checksum]
    threads,              \* every Thread created: pc and locals of _process_queue
    fs,                   \* destination paths: "absent", "file" or "dir";
                          \* "unknown" until the engine first examines one
    cpc,                  \* position of the controlling caller
    citem,                \* add_transfer's local `transfer`
    obs,                  \* get_overall_progress's locals
    events,               \* history: every _notify call
    calls,                \* history: every callback invocation
    _is_paused,           \* TransferWorker._is_paused
    _is_canceled,         \* TransferWorker._is_canceled
    run_pc,               \* position of TransferWorker.run
    run_i,                \* run's loop index i: files[1..run_i] are behind it
    emitted               \* history: every signal TransferWorker.run emitted

vars == <<transfers, queue, active_transfers, completed_transfers,
          failed_transfers, stop_event, worker_thread, callbacks, config,
          threads, fs, cpc, citem, obs, events, calls,
          _is_paused, _is_canceled, run_pc, run_i, emitted>>

managerVars == <<queue, active_transfers, completed_transfers, failed_transfers>>
busVars     == <<events, calls>>
uiVars      == <<_is_paused, _is_canceled, run_pc, run_i, emitted>>
engineVars  == <<transfers, managerVars, stop_event, worker_thread, callbacks,
                 config, threads, fs, cpc, citem, obs, busVars>>

\* ------------------------------------------------------------ TransferItem
\* __init__ (id is id(transfer), the key add_transfer derives from the object)
TransferItem(source_path, destination_path, is_dir, id) ==
    [source_path |-> source_path, destination_path |-> destination_path,
     is_dir |-> is_dir, status |-> "pending", bytes_transferred |-> 0,
     total_bytes |-> 0, error |-> None, id |-> id]

start_transfer(t) == [t EXCEPT !.status = "transferring"]

\* mutant: completion resets the byte count
complete_zero(t, bytes_transferred) ==
    [t EXCEPT !.status = "completed", !.bytes_transferred = 0]

\* complete(bytes_transferred=None): -1 stands for None
complete(t, bytes_transferred) ==
    [t EXCEPT !.status = "completed",
              !.bytes_transferred =
                  IF bytes_transferred # -1 THEN bytes_transferred ELSE @]

\* mutant: a failed item is put back to pending
fail_requeue(t, error) == [t EXCEPT !.status = "pending", !.error = error]

\* mutant: the reason is not recorded
fail_silent(t, error) == [t EXCEPT !.status = "failed"]

fail(t, error) == [t EXCEPT !.status = "failed", !.error = error]

\* mutant: a skipped item is reported as completed
skip_as_complete(t, reason) == [t EXCEPT !.status = "completed"]

\* mutant: the reason is dropped
skip_no_reason(t, reason) == [t EXCEPT !.status = "skipped"]

\* skip(reason=None)
skip(t, reason) ==
    [t EXCEPT !.status = "skipped",
              !.error = IF reason # None THEN reason ELSE @]

Terminal == {"completed", "failed", "skipped"}

\* ------------------------------------------------------------- helpers
Range(s) == {s[k] : k \in 1..Len(s)}

\* dict assignment and dict.pop(key, None)
DictSet(d, k, v) == [x \in DOMAIN d \cup {k} |-> IF x = k THEN v ELSE d[x]]
DictPop(d, k)    == [x \in DOMAIN d \ {k} |-> d[x]]

\* the locals of _process_queue and of the copier it calls.  chunk, level and
\* file count the loop iterations; seen counts the source files the walk has
\* come across and warned the per-file failures it has logged; written is
\* what the destination holds against the source when the chunk loop has
\* ended, cleanup the outcome of the copier's except block
NewThread == [pc |-> "test", transfer_id |-> 0, transfer |-> 0, exc |-> None,
              chunk |-> 0, level |-> 0, file |-> 0, seen |-> 0, warned |-> 0,
              written |-> None, cleanup |-> None]

is_alive(w) == threads[w].pc # "dead"

\* items some reference still reaches: their addresses cannot be handed out
Live ==
    {q[2] : q \in Range(queue)}
      \cup {active_transfers[k] : k \in DOMAIN active_transfers}
      \cup Range(completed_transfers) \cup Range(failed_transfers)
      \cup {threads[w].transfer : w \in {v \in 1..Len(threads) : is_alive(v)}}
      \cup {citem}

\* id(transfer): an address no live object has; a released address may come
\* back, otherwise the least address never used (addresses are interchangeable)
FreshIds ==
    LET used == {transfers[i].id : i \in 1..Len(transfers)}
        live == {transfers[i].id : i \in Live \cap (1..Len(transfers))}
    IN  (used \ live) \cup {Cardinality(used) + 1}

\* ------------------------------------------------------------- callbacks
\* mutant: no try/except around the call, the first raise ends the loop
RECURSIVE NotifyFrom_unguarded(_, _, _)
NotifyFrom_unguarded(hs, k, pub) ==
    IF k > Len(hs) THEN [calls |-> <<>>, escaped |-> FALSE]
    ELSE LET call == [pub |-> pub, h |-> k, raised |-> hs[k] = "raises"]
             rest == NotifyFrom_unguarded(hs, k + 1, pub)
         IN  IF call.raised THEN [calls |-> <<call>>, escaped |-> TRUE]
             ELSE [calls |-> <<call>> \o rest.calls,
                   escaped |-> rest.escaped]

\* the loop of _notify from position k on: each callback is called inside
\* try/except, so a raising callback is logged and the loop goes on
RECURSIVE NotifyFrom(_, _, _)
NotifyFrom(hs, k, pub) ==
    IF k > Len(hs) THEN [calls |-> <<>>, escaped |-> FALSE]
    ELSE LET rest == NotifyFrom(hs, k + 1, pub)
         IN  [calls |-> <<[pub |-> pub, h |-> k,
                           raised |-> hs[k] = "raises"]>> \o rest.calls,
              escaped |-> rest.escaped]

\* a call record with the channel whose list the callback was taken from:
\* (ch, h) names the callback, since add_callback only ever appends
Tagged(r, ch) ==
    [calls |-> [k \in 1..Len(r.calls) |->
                  [pub |-> r.calls[k].pub, h |-> r.calls[k].h,
                   raised |-> r.calls[k].raised, ch |-> ch]],
     escaped |-> r.escaped]

\* mutant: every event is delivered to the callbacks of 'progress'
_notify_progress(event_type) ==
    Tagged(NotifyFrom(callbacks["progress"], 1, Len(events) + 1), "progress")

\* _notify(event_type, ...): the callback invocations it makes and whether
\* an exception leaves it
_notify(event_type) ==
    Tagged(NotifyFrom(IF event_type \in DOMAIN callbacks
                      THEN callbacks[event_type] ELSE <<>>,
                      1, Len(events) + 1), event_type)

\* the history after self._notify(event_type, transfer_id, transfer[, msg]):
\* bytes is transfer.bytes_transferred as a callback reads it during the call
Published(event_type, item, msg) ==
    /\ events' = Append(events,
                   [ch |-> event_type, item |-> item, msg |-> msg,
                    nh |-> Len(callbacks[event_type]),
                    bytes |-> transfers[item].bytes_transferred])
    /\ calls' = calls \o _notify(event_type).calls

\* ------------------------------------------------------------------ Init
Init ==
    /\ transfers = <<>>
    /\ queue = <<>>
    /\ active_transfers = <<>>
    /\ completed_transfers = <<>>
    /\ failed_transfers = <<>>
    /\ stop_event = FALSE
    /\ worker_thread = 0
    /\ callbacks = [c \in Channels |-> <<>>]
    /\ config \in [verify_checksum : BOOLEAN]
    /\ threads = <<>>
    /\ fs = [d \in Dests |-> "unknown"]
    /\ cpc = "idle"
    /\ citem = 0
    /\ obs = <<>>
    /\ events = <<>>
    /\ calls = <<>>
    /\ _is_paused = FALSE
    /\ _is_canceled = FALSE
    /\ run_pc = "for"
    /\ run_i = 0
    /\ emitted = <<>>

\* ------------------------------------------------- the controlling caller
NumHandlers ==
    LET RECURSIVE Sum(_)
        Sum(S) == IF S = {} THEN 0
                  ELSE LET c == CHOOSE x \in S : TRUE
                       IN  Len(callbacks[c]) + Sum(S \ {c})
    IN  Sum(Channels)

\* add_callback(event_type, callback): unknown event types are ignored
add_callback(event_type, callback) ==
    /\ cpc = "idle"
    /\ NumHandlers < MaxHandlers
    /\ callbacks' = IF event_type \in DOMAIN callbacks
                    THEN [callbacks EXCEPT ![event_type] = Append(@, callback)]
                    ELSE callbacks
    /\ UNCHANGED <<transfers, managerVars, stop_event, worker_thread, config, uiVars,
                   threads, fs, cpc, citem, obs, busVars>>

\* add_transfer, lines 129-131: construct the item, derive its id, queue.put
add_transfer_put(source_path, destination_path, is_dir) ==
    /\ cpc = "idle"
    /\ Len(transfers) < MaxItems
    /\ \E id \in FreshIds :
         /\ transfers' = Append(transfers,
                TransferItem(source_path, destination_path, is_dir, id))
         /\ queue' = Append(queue, <<id, Len(transfers) + 1>>)
    /\ citem' = Len(transfers) + 1
    /\ cpc' = "add_map"
    /\ UNCHANGED <<active_transfers, completed_transfers, failed_transfers,
                   stop_event, worker_thread, callbacks, config, uiVars, threads, fs,
                   obs, busVars>>

\* add_transfer, lines 132-133: self.active_transfers[transfer_id] = transfer
add_transfer_map ==
    /\ cpc = "add_map"
    /\ active_transfers' =
           DictSet(active_transfers, transfers[citem].id, citem)
    /\ citem' = 0
    /\ cpc' = "idle"
    /\ UNCHANGED <<transfers, queue, completed_transfers, failed_transfers,
                   stop_event, worker_thread, callbacks, config, uiVars, threads, fs,
                   obs, busVars>>

\* mutant: start() does not look at the running worker
WorkerRunning_unchecked == FALSE

\* start(), line 137: self._worker_thread and self._worker_thread.is_alive()
WorkerRunning == worker_thread # 0 /\ is_alive(worker_thread)

\* start(): no-op while the worker is alive, else clear the stop event and
\* start a new thread on _process_queue
start ==
    /\ cpc = "idle"
    /\ IF WorkerRunning
       THEN UNCHANGED <<stop_event, worker_thread, threads>>
       ELSE /\ Len(threads) < MaxThreads
            /\ stop_event' = FALSE
            /\ threads' = Append(threads, NewThread)
            /\ worker_thread' = Len(threads) + 1
    /\ UNCHANGED <<transfers, managerVars, callbacks, config, uiVars, fs, cpc, citem,
                   obs, busVars>>

\* stop(), line 146: self._stop_event.set()
stop_set ==
    /\ cpc = "idle"
    /\ stop_event' = TRUE
    /\ cpc' = IF worker_thread # 0 THEN "join" ELSE "idle"
    /\ UNCHANGED <<transfers, managerVars, worker_thread, callbacks, config, uiVars,
                   threads, fs, citem, obs, busVars>>

\* stop(), line 148: join(timeout=5) returns when the worker has exited or
\* when the timeout has elapsed, whichever comes first
stop_join ==
    /\ cpc = "join"
    /\ cpc' = "idle"
    /\ UNCHANGED <<transfers, managerVars, stop_event, worker_thread,
                   callbacks, config, uiVars, threads, fs, citem, obs, busVars>>

\* get_overall_progress(), one line at a time: line 350 computes total from
\* the four sizes, lines 351-353 and 360 read completed, failed, active and
\* queued again
ProgressLines == <<"total", "completed", "failed", "active", "queued">>

ReadOf(name) ==
    CASE name = "queued"    -> Len(queue)
      [] name = "active"    -> Cardinality(DOMAIN active_transfers)
      [] name = "completed" -> Len(completed_transfers)
      [] name = "failed"    -> Len(failed_transfers)
      [] name = "total"     -> Len(queue) + Cardinality(DOMAIN active_transfers)
                                 + Len(completed_transfers)
                                 + Len(failed_transfers)

\* one line of get_overall_progress
get_overall_progress_read ==
    /\ cpc \in {"idle", "progress"}
    /\ Len(obs) < Len(ProgressLines)
    /\ obs' = Append(obs, ReadOf(ProgressLines[Len(obs) + 1]))
    /\ cpc' = "progress"
    /\ UNCHANGED <<transfers, managerVars, stop_event, worker_thread,
                   callbacks, config, uiVars, threads, fs, citem, busVars>>

\* mutant: the percentage is the completed count times 100, not divided
OverallProgress_undivided(o) ==
    [total |-> o[1], completed |-> o[2], failed |-> o[3], active |-> o[4],
     queued |-> o[5], progress |-> o[2] * 100]

\* the dictionary get_overall_progress returns, from its locals
OverallProgress(o) ==
    [total |-> o[1], completed |-> o[2], failed |-> o[3], active |-> o[4],
     queued |-> o[5],
     progress |-> IF o[1] > 0 THEN (o[2] * 100) \div o[1] ELSE 0]

\* get_overall_progress returns
get_overall_progress_return ==
    /\ cpc = "progress"
    /\ Len(obs) = Len(ProgressLines)
    /\ obs' = <<>>
    /\ cpc' = "idle"
    /\ UNCHANGED <<transfers, managerVars, stop_event, worker_thread,
                   callbacks, config, uiVars, threads, fs, citem, busVars>>

\* what get_transfer_status returns for an id it does not find (None)
NotFound == [id |-> None]

\* an exception leaves the call
Raised(msg) == [raised |-> msg]

\* get_transfer_status(transfer_id): a snapshot of the item active_transfers
\* holds under the id, NotFound if it holds none.  Line 342 parses as
\* (total_bytes or getsize(source)) if not is_dir else 0: for a file whose
\* total_bytes is 0 it calls os.path.getsize, which raises when no file is
\* found at the source path (source_found) and else reports the size
\* ("st_size"); line 343 is 0 while total_bytes is 0 (the field computed
\* from the clock is left out)
get_transfer_status(transfer_id, source_found) ==
    IF transfer_id \notin DOMAIN active_transfers THEN NotFound
    ELSE LET transfer == transfers[active_transfers[transfer_id]]
         IN  IF ~transfer.is_dir /\ transfer.total_bytes = 0 /\ ~source_found
             THEN Raised(OSErrorMsg)
             ELSE [id |-> transfer_id,
                   source |-> transfer.source_path,
                   destination |-> transfer.destination_path,
                   status |-> transfer.status,
                   bytes_transferred |-> transfer.bytes_transferred,
                   total_bytes |-> IF transfer.is_dir THEN 0
                                   ELSE IF transfer.total_bytes # 0
                                        THEN transfer.total_bytes
                                        ELSE "st_size",
                   progress |-> IF transfer.total_bytes # 0
                                THEN transfer.bytes_transferred
                                       \div transfer.total_bytes
                                ELSE 0,
                   error |-> transfer.error]

Enqueue ==
    \E s \in Sources, d \in Dests, b \in BOOLEAN : add_transfer_put(s, d, b)

Subscribe == \E e \in EventTypes, h \in HandlerKinds : add_callback(e, h)

\* ------------------------------------------------------ the worker thread
Me(w)   == threads[w]
Item(w) == transfers[threads[w].transfer]
Dst(w)  == Item(w).destination_path

Goto(w, pc) == threads' = [threads EXCEPT ![w].pc = pc]

\* an exception with message msg is raised and control reaches handler pc
Raise(w, msg, pc) == threads' = [threads EXCEPT ![w].pc = pc, ![w].exc = msg]

\* _process_queue returns: the thread ends and its locals are released
Die(w) == threads' = [threads EXCEPT ![w] = [NewThread EXCEPT !.pc = "dead"]]

\* an exception with message msg leaves _process_queue: the thread ends
Crash(w, msg) ==
    threads' = [threads EXCEPT ![w] = [NewThread EXCEPT !.pc = "dead",
                                                       !.exc = msg]]

SetItem(w, t) == transfers' = [transfers EXCEPT ![threads[w].transfer] = t]

\* line 152: while not self._stop_event.is_set() and not self.queue.empty()
process_queue_test(w) ==
    /\ Me(w).pc = "test"
    /\ Goto(w, IF ~stop_event /\ queue # <<>> THEN "get" ELSE "exit")
    /\ UNCHANGED <<transfers, managerVars, stop_event, worker_thread,
                   callbacks, config, uiVars, fs, cpc, citem, obs, busVars>>

\* _process_queue returns: the thread is no longer alive
process_queue_exit(w) ==
    /\ Me(w).pc = "exit"
    /\ Die(w)
    /\ UNCHANGED <<transfers, managerVars, stop_event, worker_thread,
                   callbacks, config, uiVars, fs, cpc, citem, obs, busVars>>

\* mutant: a LifoQueue, the newest entry leaves
get_nowait_lifo ==
    [entry |-> queue[Len(queue)], rest |-> SubSeq(queue, 1, Len(queue) - 1)]

\* mutant: the entry is read but stays queued
get_nowait_peek == [entry |-> Head(queue), rest |-> queue]

\* queue.Queue.get_nowait() on a non-empty queue: the oldest entry leaves
get_nowait == [entry |-> Head(queue), rest |-> Tail(queue)]

\* line 154: get_nowait(); queue.Empty breaks the loop (lines 183-184)
process_queue_get(w) ==
    /\ Me(w).pc = "get"
    /\ IF queue = <<>>
       THEN /\ Goto(w, "exit")
            /\ UNCHANGED queue
       ELSE /\ threads' = [threads EXCEPT ![w].pc = "notify_start",
                                          ![w].transfer_id = get_nowait.entry[1],
                                          ![w].transfer = get_nowait.entry[2]]
            /\ queue' = get_nowait.rest
    /\ UNCHANGED <<transfers, active_transfers, completed_transfers,
                   failed_transfers, stop_event, worker_thread, callbacks,
                   config, uiVars, fs, cpc, citem, obs, busVars>>

\* mutant: `complete` is published when the item is taken, before the copy
process_queue_notify_start_complete(w) ==
    /\ Me(w).pc = "notify_start"
    /\ Published("complete", Me(w).transfer, None)
    /\ Goto(w, IF Item(w).is_dir THEN "d_mkdir" ELSE "f_mkdir")
    /\ UNCHANGED <<transfers, managerVars, stop_event, worker_thread,
                   callbacks, config, uiVars, fs, cpc, citem, obs>>

\* mutant: the item is dispatched without a `start` event
process_queue_notify_start_silent(w) ==
    /\ Me(w).pc = "notify_start"
    /\ Goto(w, IF Item(w).is_dir THEN "d_mkdir" ELSE "f_mkdir")
    /\ UNCHANGED <<transfers, managerVars, stop_event, worker_thread,
                   callbacks, config, uiVars, fs, cpc, citem, obs, busVars>>

\* line 157: self._notify('start', ...), then the dispatch of lines 160-163
process_queue_notify_start(w) ==
    /\ Me(w).pc = "notify_start"
    /\ Published("start", Me(w).transfer, None)
    /\ IF _notify("start").escaped THEN Crash(w, "callback")
       ELSE Goto(w, IF Item(w).is_dir THEN "d_mkdir" ELSE "f_mkdir")
    /\ UNCHANGED <<transfers, managerVars, stop_event, worker_thread,
                   callbacks, config, uiVars, fs, cpc, citem, obs>>

\* lines 165-168: file the item under its status
process_queue_append(w) ==
    /\ Me(w).pc = "append"
    /\ completed_transfers' =
           IF Item(w).status = "completed"
           THEN Append(completed_transfers, Me(w).transfer)
           ELSE completed_transfers
    /\ failed_transfers' =
           IF Item(w).status = "failed"
           THEN Append(failed_transfers, Me(w).transfer)
           ELSE failed_transfers
    /\ Goto(w, "notify_complete")
    /\ UNCHANGED <<transfers, queue, active_transfers, stop_event,
                   worker_thread, callbacks, config, uiVars, fs, cpc, citem, obs,
                   busVars>>

\* line 171: self._notify('complete', ...)
process_queue_notify_complete(w) ==
    /\ Me(w).pc = "notify_complete"
    /\ Published("complete", Me(w).transfer, None)
    /\ IF _notify("complete").escaped THEN Raise(w, "callback", "except")
       ELSE Goto(w, "pop")
    /\ UNCHANGED <<transfers, managerVars, stop_event, worker_thread,
                   callbacks, config, uiVars, fs, cpc, citem, obs>>

\* lines 173-176: except Exception as e: transfer.fail(str(e))
process_queue_except(w) ==
    /\ Me(w).pc = "except"
    /\ SetItem(w, fail(Item(w), Me(w).exc))
    /\ Goto(w, "append_failed")
    /\ UNCHANGED <<managerVars, stop_event, worker_thread, callbacks, config, uiVars,
                   fs, cpc, citem, obs, busVars>>

\* line 177: self.failed_transfers.append(transfer)
process_queue_append_failed(w) ==
    /\ Me(w).pc = "append_failed"
    /\ failed_transfers' = Append(failed_transfers, Me(w).transfer)
    /\ Goto(w, "notify_error")
    /\ UNCHANGED <<transfers, queue, active_transfers, completed_transfers,
                   stop_event, worker_thread, callbacks, config, uiVars, fs, cpc,
                   citem, obs, busVars>>

\* mutant: the handler publishes the error and re-raises
process_queue_notify_error_reraise(w) ==
    /\ Me(w).pc = "notify_error"
    /\ Published("error", Me(w).transfer, Me(w).exc)
    /\ Crash(w, Me(w).exc)
    /\ UNCHANGED <<transfers, managerVars, stop_event, worker_thread,
                   callbacks, config, uiVars, fs, cpc, citem, obs>>

\* mutant: a failure is announced on the `complete` channel
FailureChannel_complete == "complete"

\* line 178: the channel a failure is published on
FailureChannel == "error"

\* line 178: self._notify('error', transfer_id, transfer, error_msg)
process_queue_notify_error(w) ==
    /\ Me(w).pc = "notify_error"
    /\ Published(FailureChannel, Me(w).transfer, Me(w).exc)
    /\ IF _notify(FailureChannel).escaped THEN Crash(w, "callback")
       ELSE Goto(w, "pop")
    /\ UNCHANGED <<transfers, managerVars, stop_event, worker_thread,
                   callbacks, config, uiVars, fs, cpc, citem, obs>>

\* line 181: self.active_transfers.pop(transfer_id, None)
process_queue_pop(w) ==
    /\ Me(w).pc = "pop"
    /\ active_transfers' = DictPop(active_transfers, Me(w).transfer_id)
    /\ threads' = [threads EXCEPT ![w] =
                      [NewThread EXCEPT !.transfer_id = Me(w).transfer_id,
                                        !.transfer = Me(w).transfer]]
    /\ UNCHANGED <<transfers, queue, completed_transfers, failed_transfers,
                   stop_event, worker_thread, callbacks, config, uiVars, fs, cpc,
                   citem, obs, busVars>>

\* what the engine finds at a destination path when it looks: a path it has
\* not touched before may hold anything
Examine(path) ==
    IF fs[path] = "unknown" THEN {"absent", "file", "dir"} ELSE {fs[path]}

\* ------------------------------------------------------- _transfer_file
\* line 192: dest.parent.mkdir(parents=True, exist_ok=True), outside the try.
\* With exist_ok it raises only if the parent is not a directory and cannot
\* be made one, and then the destination does not exist either
transfer_file_mkdir(w) ==
    /\ Me(w).pc = "f_mkdir"
    /\ \E o \in {"ok"} \cup (IF "absent" \in Examine(Dst(w))
                            THEN {"failed"} ELSE {}) :
         IF o = "ok"
         THEN /\ Goto(w, "f_exists")
              /\ UNCHANGED fs
         ELSE /\ Raise(w, OSErrorMsg, "except")
              /\ fs' = [fs EXCEPT ![Dst(w)] = "absent"]
    /\ UNCHANGED <<transfers, managerVars, stop_event, worker_thread,
                   callbacks, config, uiVars, cpc, citem, obs, busVars>>

\* mutant: no destination is taken to exist
exists_never(seen) == FALSE

\* mutant: every destination is taken to exist
exists_always(seen) == TRUE

\* Path.exists(): true of a file and of a directory
exists(seen) == seen # "absent"

\* lines 195-201: an existing destination is skipped, else start_transfer()
transfer_file_exists(w) ==
    /\ Me(w).pc = "f_exists"
    /\ \E seen \in Examine(Dst(w)) :
         /\ fs' = [fs EXCEPT ![Dst(w)] = seen]
         /\ IF exists(seen)
            THEN /\ SetItem(w, skip(Item(w), AlreadyExists))
                 /\ Goto(w, "append")
            ELSE /\ SetItem(w, start_transfer(Item(w)))
                 /\ Goto(w, "f_open")
    /\ UNCHANGED <<managerVars, stop_event, worker_thread, callbacks, config, uiVars,
                   cpc, citem, obs, busVars>>

\* lines 207-208: open the source for reading, create the destination
transfer_file_open(w) ==
    /\ Me(w).pc = "f_open"
    /\ \E o \in {"ok", "no_source", "no_dest"} :
         CASE o = "ok" ->
                /\ fs' = [fs EXCEPT ![Dst(w)] = "file"]
                /\ Goto(w, "f_check")
           [] o = "no_source" ->
                /\ Raise(w, OSErrorMsg, "f_cleanup")
                /\ UNCHANGED fs
           [] o = "no_dest" ->
                /\ Raise(w, OSErrorMsg, "f_cleanup")
                /\ UNCHANGED fs
    /\ UNCHANGED <<transfers, managerVars, stop_event, worker_thread,
                   callbacks, config, uiVars, cpc, citem, obs, busVars>>

\* mutant: the chunk loop does not look at the stop signal
transfer_file_check_blind(w) ==
    /\ Me(w).pc = "f_check"
    /\ Goto(w, "f_read")
    /\ UNCHANGED <<transfers, managerVars, stop_event, worker_thread,
                   callbacks, config, uiVars, fs, cpc, citem, obs, busVars>>

\* lines 210-211: the cancellation check at the head of the chunk loop
transfer_file_check(w) ==
    /\ Me(w).pc = "f_check"
    /\ IF stop_event THEN Raise(w, Cancelled, "f_cleanup")
       ELSE Goto(w, "f_read")
    /\ UNCHANGED <<transfers, managerVars, stop_event, worker_thread,
                   callbacks, config, uiVars, fs, cpc, citem, obs, busVars>>

\* what a file can hold, set against the bytes of the source: the same bytes,
\* fewer bytes, or as many bytes of which some differ
Contents == {"source", "short", "altered"}

\* os.path.getsize, by size class
getsize(content) == IF content = "short" THEN "smaller" ELSE "full"

\* mutant: a digest that does not depend on the bytes
_calculate_checksum_blind(content) == <<"sha256", "0">>

\* _calculate_checksum: SHA-256 of the bytes, taken as collision-free
_calculate_checksum(content) == <<"sha256", content>>

\* lines 213-218: read a chunk; at end of file leave the loop, else write it
\* and count it (a chunk is one unit of length)
transfer_file_read(w) ==
    /\ Me(w).pc = "f_read"
    /\ \E o \in {"eof", "error"}
               \cup (IF Me(w).chunk < MaxChunks THEN {"chunk"} ELSE {}) :
         CASE o = "eof" ->
                /\ Goto(w, "f_verify")
                /\ UNCHANGED transfers
           [] o = "error" ->
                /\ Raise(w, OSErrorMsg, "f_cleanup")
                /\ UNCHANGED transfers
           [] o = "chunk" ->
                /\ SetItem(w, [Item(w) EXCEPT !.bytes_transferred = @ + 1])
                /\ threads' = [threads EXCEPT ![w].pc = "f_progress",
                                              ![w].chunk = @ + 1]
    /\ UNCHANGED <<managerVars, stop_event, worker_thread, callbacks, config, uiVars,
                   fs, cpc, citem, obs, busVars>>

\* line 221: self._notify('progress', ...)
transfer_file_progress(w) ==
    /\ Me(w).pc = "f_progress"
    /\ Published("progress", Me(w).transfer, None)
    /\ IF _notify("progress").escaped THEN Raise(w, "callback", "f_cleanup")
       ELSE Goto(w, "f_check")
    /\ UNCHANGED <<transfers, managerVars, stop_event, worker_thread,
                   callbacks, config, uiVars, fs, cpc, citem, obs>>

\* lines 224-230: size comparison, then the checksums if verify_checksum.
\* What the closed destination holds (written) is for the devices to decide;
\* getsize and the reads of _calculate_checksum may raise OSError
transfer_file_verify(w) ==
    /\ Me(w).pc = "f_verify"
    /\ \E readable \in BOOLEAN, written \in Contents :
         IF ~readable THEN Raise(w, OSErrorMsg, "f_cleanup")
         ELSE IF getsize("source") # getsize(written)
         THEN Raise(w, SizeMismatch, "f_cleanup")
         ELSE IF /\ config.verify_checksum
                 /\ _calculate_checksum("source") # _calculate_checksum(written)
         THEN Raise(w, ChecksumFailed, "f_cleanup")
         ELSE threads' = [threads EXCEPT ![w].pc = "f_copymode",
                                         ![w].written = written]
    /\ UNCHANGED <<transfers, managerVars, stop_event, worker_thread,
                   callbacks, config, uiVars, fs, cpc, citem, obs, busVars>>

\* line 236: shutil.copymode
transfer_file_copymode(w) ==
    /\ Me(w).pc = "f_copymode"
    /\ \E ok \in BOOLEAN :
         IF ok THEN Goto(w, "f_complete")
         ELSE Raise(w, OSErrorMsg, "f_cleanup")
    /\ UNCHANGED <<transfers, managerVars, stop_event, worker_thread,
                   callbacks, config, uiVars, fs, cpc, citem, obs, busVars>>

\* line 239: transfer.complete(os.path.getsize(source)); returns to line 165
transfer_file_complete(w) ==
    /\ Me(w).pc = "f_complete"
    /\ \E ok \in BOOLEAN :
         IF ok
         THEN /\ SetItem(w, complete(Item(w), Me(w).chunk))
              /\ Goto(w, "append")
         ELSE /\ Raise(w, OSErrorMsg, "f_cleanup")
              /\ UNCHANGED transfers
    /\ UNCHANGED <<managerVars, stop_event, worker_thread, callbacks, config, uiVars,
                   fs, cpc, citem, obs, busVars>>

\* mutant: os.remove returns without removing anything
os_remove_keeps(path, ok) == fs

\* os.remove(path): the file is gone, or OSError is raised and it stays
os_remove(path, ok) == IF ok THEN [fs EXCEPT ![path] = "absent"] ELSE fs

\* what the copier's except block did: "done" if nothing was there to remove
\* or the removal returned, "failed" if the removal raised (swallowed)
CleanupOutcome(path, ok) ==
    IF fs[path] = "absent" \/ ok THEN "done" ELSE "failed"

\* lines 241-248: remove the partial destination (best effort) and re-raise
transfer_file_cleanup(w) ==
    /\ Me(w).pc = "f_cleanup"
    /\ \E ok \in BOOLEAN :
         /\ fs' = IF fs[Dst(w)] # "absent" THEN os_remove(Dst(w), ok) ELSE fs
         /\ threads' = [threads EXCEPT
                           ![w].pc = "except",
                           ![w].cleanup = CleanupOutcome(Dst(w), ok)]
    /\ UNCHANGED <<transfers, managerVars, stop_event, worker_thread,
                   callbacks, config, uiVars, cpc, citem, obs, busVars>>

\* -------------------------------------------------- _transfer_directory
\* lines 256-262: create the destination root, then start_transfer().  With
\* exist_ok an existing directory is accepted; a file in its place, or a
\* directory that cannot be created, raises
transfer_directory_mkdir(w) ==
    /\ Me(w).pc = "d_mkdir"
    /\ \E ok \in BOOLEAN, seen \in Examine(Dst(w)) :
         IF seen = "dir" \/ (seen = "absent" /\ ok)
         THEN /\ fs' = [fs EXCEPT ![Dst(w)] = "dir"]
              /\ SetItem(w, start_transfer(Item(w)))
              /\ Goto(w, "d_walk")
         ELSE /\ Raise(w, MkdirFailed, "except")
              /\ fs' = [fs EXCEPT ![Dst(w)] = seen]
              /\ UNCHANGED transfers
    /\ UNCHANGED <<managerVars, stop_event, worker_thread, callbacks, config, uiVars,
                   cpc, citem, obs, busVars>>

\* lines 266-280: the next level os.walk yields, its cancellation check and
\* the creation of the mirrored directory
transfer_directory_walk(w) ==
    /\ Me(w).pc = "d_walk"
    /\ \E o \in {"end"} \cup (IF Me(w).level < MaxLevels
                              THEN {"level", "level_mkdir_failed"} ELSE {}) :
         CASE o = "end" -> Goto(w, "d_complete")
           [] o = "level" ->
                IF stop_event THEN Raise(w, Cancelled, "d_cleanup")
                ELSE threads' = [threads EXCEPT ![w].pc = "d_file",
                                                ![w].level = @ + 1,
                                                ![w].file = 0]
           [] o = "level_mkdir_failed" ->
                IF stop_event THEN Raise(w, Cancelled, "d_cleanup")
                ELSE threads' = [threads EXCEPT ![w].level = @ + 1]
    /\ UNCHANGED <<transfers, managerVars, stop_event, worker_thread,
                   callbacks, config, uiVars, fs, cpc, citem, obs, busVars>>

\* mutant: the per-file handler lets the exception go
per_file_except_reraise(w) ==
    [threads EXCEPT ![w].pc = "d_cleanup", ![w].exc = OSErrorMsg]

\* lines 305-307: except Exception: logger.warning(...); continue
per_file_except(w) ==
    [threads EXCEPT ![w].pc = "d_file", ![w].file = @ + 1, ![w].seen = @ + 1,
                    ![w].warned = @ + 1]

\* mutant: the loop over the files does not look at the stop signal
transfer_directory_file_blind(w) ==
    /\ Me(w).pc = "d_file"
    /\ \E o \in {"end"} \cup (IF Me(w).file < MaxFiles THEN {"next"}
                              ELSE {}) :
         CASE o = "end" -> Goto(w, "d_walk")
           [] o = "next" -> Goto(w, "d_copy")
    /\ UNCHANGED <<transfers, managerVars, stop_event, worker_thread,
                   callbacks, config, uiVars, fs, cpc, citem, obs, busVars>>

\* lines 283-285: the head of the loop over the files of the level and its
\* cancellation check
transfer_directory_file(w) ==
    /\ Me(w).pc = "d_file"
    /\ \E o \in {"end"} \cup (IF Me(w).file < MaxFiles THEN {"next"}
                              ELSE {}) :
         CASE o = "end" -> Goto(w, "d_walk")
           [] o = "next" ->
                IF stop_event THEN Raise(w, Cancelled, "d_cleanup")
                ELSE Goto(w, "d_copy")
    /\ UNCHANGED <<transfers, managerVars, stop_event, worker_thread,
                   callbacks, config, uiVars, fs, cpc, citem, obs, busVars>>

\* mutant: a file that exists at the destination is counted like a copied one
transfer_directory_copy_counts_existing(w) ==
    /\ Me(w).pc = "d_copy"
    /\ \E o \in {"exists", "failed", "copied"} :
         CASE o = "exists" ->
                /\ threads' = [threads EXCEPT ![w].pc = "d_file",
                                              ![w].file = @ + 1,
                                              ![w].seen = @ + 1]
                /\ SetItem(w, [Item(w) EXCEPT !.bytes_transferred = @ + 1])
           [] o = "failed" ->
                /\ threads' = per_file_except(w)
                /\ UNCHANGED transfers
           [] o = "copied" ->
                /\ SetItem(w, [Item(w) EXCEPT !.bytes_transferred = @ + 1])
                /\ threads' = [threads EXCEPT ![w].pc = "d_progress",
                                              ![w].file = @ + 1,
                                              ![w].seen = @ + 1]
    /\ UNCHANGED <<managerVars, stop_event, worker_thread, callbacks, config, uiVars,
                   fs, cpc, citem, obs, busVars>>

\* lines 287-300: skip the file if it exists at the destination, else copy2
\* and count its size (one unit); a failure goes to the per-file handler
transfer_directory_copy(w) ==
    /\ Me(w).pc = "d_copy"
    /\ \E o \in {"exists", "failed", "copied"} :
         CASE o = "exists" ->
                /\ threads' = [threads EXCEPT ![w].pc = "d_file",
                                              ![w].file = @ + 1,
                                              ![w].seen = @ + 1]
                /\ UNCHANGED transfers
           [] o = "failed" ->
                /\ threads' = per_file_except(w)
                /\ UNCHANGED transfers
           [] o = "copied" ->
                /\ SetItem(w, [Item(w) EXCEPT !.bytes_transferred = @ + 1])
                /\ threads' = [threads EXCEPT ![w].pc = "d_progress",
                                              ![w].file = @ + 1,
                                              ![w].seen = @ + 1]
    /\ UNCHANGED <<managerVars, stop_event, worker_thread, callbacks, config, uiVars,
                   fs, cpc, citem, obs, busVars>>

\* line 303: self._notify('progress', ...); it runs inside the per-file try,
\* whose handler (lines 305-307) continues with the next file
transfer_directory_progress(w) ==
    /\ Me(w).pc = "d_progress"
    /\ Published("progress", Me(w).transfer, None)
    /\ Goto(w, "d_file")
    /\ UNCHANGED <<transfers, managerVars, stop_event, worker_thread,
                   callbacks, config, uiVars, fs, cpc, citem, obs>>

\* line 310: transfer.complete(); returns to line 165
transfer_directory_complete(w) ==
    /\ Me(w).pc = "d_complete"
    /\ SetItem(w, complete(Item(w), -1))
    /\ Goto(w, "append")
    /\ UNCHANGED <<managerVars, stop_event, worker_thread, callbacks, config, uiVars,
                   fs, cpc, citem, obs, busVars>>

\* mutant: shutil.rmtree returns without removing anything
rmtree_keeps(path, ok) == fs

\* shutil.rmtree(path): the tree is gone, or an error is raised and the root
\* stays
rmtree(path, ok) == IF ok THEN [fs EXCEPT ![path] = "absent"] ELSE fs

\* lines 312-319: remove the destination tree (best effort) and re-raise
transfer_directory_cleanup(w) ==
    /\ Me(w).pc = "d_cleanup"
    /\ \E ok \in BOOLEAN :
         /\ fs' = IF fs[Dst(w)] # "absent" THEN rmtree(Dst(w), ok) ELSE fs
         /\ threads' = [threads EXCEPT
                           ![w].pc = "except",
                           ![w].cleanup = CleanupOutcome(Dst(w), ok)]
    /\ UNCHANGED <<transfers, managerVars, stop_event, worker_thread,
                   callbacks, config, uiVars, cpc, citem, obs, busVars>>

Worker(w) ==
    \/ process_queue_test(w)
    \/ process_queue_exit(w)
    \/ process_queue_get(w)
    \/ process_queue_notify_start(w)
    \/ transfer_file_mkdir(w)
    \/ transfer_file_exists(w)
    \/ transfer_file_open(w)
    \/ transfer_file_check(w)
    \/ transfer_file_read(w)
    \/ transfer_file_progress(w)
    \/ transfer_file_verify(w)
    \/ transfer_file_copymode(w)
    \/ transfer_file_complete(w)
    \/ transfer_file_cleanup(w)
    \/ transfer_directory_mkdir(w)
    \/ transfer_directory_walk(w)
    \/ transfer_directory_file(w)
    \/ transfer_directory_copy(w)
    \/ transfer_directory_progress(w)
    \/ transfer_directory_complete(w)
    \/ transfer_directory_cleanup(w)
    \/ process_queue_append(w)
    \/ process_queue_notify_complete(w)
    \/ process_queue_except(w)
    \/ process_queue_append_failed(w)
    \/ process_queue_notify_error(w)
    \/ process_queue_pop(w)

Workers == \E w \in 1..Len(threads) : Worker(w)

\* the engine and a caller that enqueues, starts and stops
Next ==
    \/ Enqueue
    \/ add_transfer_map
    \/ start
    \/ stop_set
    \/ stop_join
    \/ Workers

Spec == Init /\ [][Next]_vars

\* the same with a caller that also polls get_overall_progress
NextObserve ==
    \/ Len(transfers) < PollItems /\ Enqueue
    \/ add_transfer_map
    \/ start
    \/ stop_set
    \/ stop_join
    \/ get_overall_progress_read
    \/ get_overall_progress_return
    \/ Workers

SpecObserve == Init /\ [][NextObserve]_vars

\* the engine with callbacks registered at any time
NextBus ==
    \/ Len(transfers) < BusItems /\ Enqueue
    \/ add_transfer_map
    \/ start
    \/ Subscribe
    \/ Workers

SpecBus == Init /\ [][NextBus]_vars

\* Spec with the worker threads scheduled fairly: a worker that can take a
\* step eventually takes one
SpecFair == Spec /\ WF_vars(Workers)

\* ------------------------------------------- TransferWorker (the UI thread)
\* TransferWorker.run copies self.files one after the other on its own
\* thread, while the window calls pause(), resume() and stop() on it.  One
\* statement of run is one step; emitted records the signals it emits.

\* line 53: the next element of self.files, or the end of the loop
run_for ==
    /\ run_pc = "for"
    /\ run_pc' = IF run_i < UiFiles THEN "check" ELSE "final"
    /\ UNCHANGED <<_is_paused, _is_canceled, run_i, emitted, engineVars>>

\* lines 54-55: if self._is_canceled: break
run_check ==
    /\ run_pc = "check"
    /\ run_pc' = IF _is_canceled THEN "final" ELSE "wait"
    /\ UNCHANGED <<_is_paused, _is_canceled, run_i, emitted, engineVars>>

\* mutant: the wait loop does not look at _is_paused
run_wait_ignores_pause ==
    /\ run_pc = "wait"
    /\ run_pc' = "recheck"
    /\ UNCHANGED <<_is_paused, _is_canceled, run_i, emitted, engineVars>>

\* line 58: while self._is_paused and not self._is_canceled
run_wait ==
    /\ run_pc = "wait"
    /\ run_pc' = IF _is_paused /\ ~_is_canceled THEN "msleep" ELSE "recheck"
    /\ UNCHANGED <<_is_paused, _is_canceled, run_i, emitted, engineVars>>

\* line 59: self.msleep(100), then the loop condition again
run_msleep ==
    /\ run_pc = "msleep"
    /\ run_pc' = "wait"
    /\ UNCHANGED <<_is_paused, _is_canceled, run_i, emitted, engineVars>>

\* lines 61-62: if self._is_canceled: break
run_recheck ==
    /\ run_pc = "recheck"
    /\ run_pc' = IF _is_canceled THEN "final" ELSE "file_started"
    /\ UNCHANGED <<_is_paused, _is_canceled, run_i, emitted, engineVars>>

\* line 66: self.signals.file_started.emit(...)
run_file_started ==
    /\ run_pc = "file_started"
    /\ emitted' = Append(emitted, <<"file_started", run_i + 1>>)
    /\ run_pc' = "copy"
    /\ UNCHANGED <<_is_paused, _is_canceled, run_i, engineVars>>

\* lines 69-72: os.makedirs and shutil.copy2; an exception goes to the
\* handler of line 82
run_copy ==
    /\ run_pc = "copy"
    /\ \E ok \in BOOLEAN : run_pc' = IF ok THEN "file_completed" ELSE "error"
    /\ UNCHANGED <<_is_paused, _is_canceled, run_i, emitted, engineVars>>

\* lines 75-80: the progress signals and file_completed, then the next turn
\* of the loop
run_file_completed ==
    /\ run_pc = "file_completed"
    /\ emitted' = Append(emitted, <<"file_completed", run_i + 1>>)
    /\ run_i' = run_i + 1
    /\ run_pc' = "for"
    /\ UNCHANGED <<_is_paused, _is_canceled, engineVars>>

\* lines 82-83: the error signal for this file, then the next turn of the loop
run_error ==
    /\ run_pc = "error"
    /\ emitted' = Append(emitted, <<"error", run_i + 1>>)
    /\ run_i' = run_i + 1
    /\ run_pc' = "for"
    /\ UNCHANGED <<_is_paused, _is_canceled, engineVars>>

\* line 85: if not self._is_canceled
run_final ==
    /\ run_pc = "final"
    /\ run_pc' = IF ~_is_canceled THEN "finished" ELSE "end"
    /\ UNCHANGED <<_is_paused, _is_canceled, run_i, emitted, engineVars>>

\* line 86: self.signals.finished.emit()
run_finished ==
    /\ run_pc = "finished"
    /\ emitted' = Append(emitted, <<"finished", 0>>)
    /\ run_pc' = "end"
    /\ UNCHANGED <<_is_paused, _is_canceled, run_i, engineVars>>

\* TransferWorker.run, one statement
run ==
    \/ run_for
    \/ run_check
    \/ run_wait
    \/ run_msleep
    \/ run_recheck
    \/ run_file_started
    \/ run_copy
    \/ run_file_completed
    \/ run_error
    \/ run_final
    \/ run_finished

\* pause(), line 93
pause ==
    /\ ~_is_paused
    /\ _is_paused' = TRUE
    /\ UNCHANGED <<_is_canceled, run_pc, run_i, emitted, engineVars>>

\* resume(), line 97
resume ==
    /\ _is_paused
    /\ _is_paused' = FALSE
    /\ UNCHANGED <<_is_canceled, run_pc, run_i, emitted, engineVars>>

\* stop(), line 101 (TransferWorker.stop)
worker_stop ==
    /\ ~_is_canceled
    /\ _is_canceled' = TRUE
    /\ UNCHANGED <<_is_paused, run_pc, run_i, emitted, engineVars>>

\* the UI worker and the window that pauses, resumes and stops it
NextUi ==
    \/ run
    \/ pause
    \/ resume
    \/ worker_stop

SpecUi == Init /\ [][NextUi]_vars

\* ================================================================ claims
Items == 1..Len(transfers)

\* the worker has taken item i off the queue (add_transfer puts it at once)
Dequeued(i) == i \in Items /\ i \notin {q[2] : q \in Range(queue)}

\* positions of the events of channel ch published for item i
EventsOf(ch, i) ==
    {k \in 1..Len(events) : events[k].ch = ch /\ events[k].item = i}

\* the worker is done with item i: its status is terminal and no thread is
\* between dequeuing it and the end of that loop iteration
InLoopBody(w) == threads[w].pc \notin {"test", "get", "exit", "dead"}
Finished(i) ==
    /\ Dequeued(i)
    /\ transfers[i].status \in Terminal
    /\ \A w \in 1..Len(threads) : ~(threads[w].transfer = i /\ InLoopBody(w))

Active == {active_transfers[k] : k \in DOMAIN active_transfers}

\* C1: items are processed in enqueue order: when the worker has dequeued an
\* item, every item enqueued before it has been dequeued and its `start`
\* event has been published, and the `start` events appear in enqueue order
C1_Fifo ==
    \A a, b \in Items :
        a < b /\ Dequeued(b) =>
            /\ Dequeued(a)
            /\ EventsOf("start", a) # {}
            /\ \A ka \in EventsOf("start", a), kb \in EventsOf("start", b) :
                   ka < kb

\* two items were started, the second by a worker spawned after a stop()
C1_Witness ==
    /\ Len(transfers) = 2 /\ Len(threads) = 2
    /\ EventsOf("start", 1) # {} /\ EventsOf("start", 2) # {}
    /\ threads[2].transfer = 2

StatusStep(i, from, to) ==
    transfers[i].status = from /\ transfers'[i].status = to

\* C2 as stated: the only status changes are Pending -> Transferring and
\* Transferring -> Completed, Failed or Skipped
C2_Original ==
    [][\A i \in Items :
          transfers'[i].status # transfers[i].status =>
              \/ StatusStep(i, "pending", "transferring")
              \/ /\ transfers[i].status = "transferring"
                 /\ transfers'[i].status \in Terminal]_vars

\* C2 amended: the status changes are Pending -> Transferring,
\* Pending -> Skipped, Pending -> Failed, Transferring -> Completed and
\* Transferring -> Failed; Skipped is reached from Pending only
C2_StatusSteps ==
    [][\A i \in Items :
          transfers'[i].status # transfers[i].status =>
              \/ StatusStep(i, "pending", "transferring")
              \/ StatusStep(i, "pending", "skipped")
              \/ StatusStep(i, "pending", "failed")
              \/ StatusStep(i, "transferring", "completed")
              \/ StatusStep(i, "transferring", "failed")]_vars

\* one item was skipped and one failed before its copy began, both without
\* having been Transferring
C2_Witness ==
    \E i, j \in Items :
        /\ transfers[i].status = "skipped"
        /\ transfers[j].status = "failed"
        /\ transfers[j].error = MkdirFailed

\* C3: a terminal status is never left and no item returns to Pending
C3_TerminalStable ==
    [][\A i \in Items :
          /\ transfers[i].status \in Terminal =>
                 transfers'[i].status = transfers[i].status
          /\ transfers[i].status # "pending" =>
                 transfers'[i].status # "pending"]_vars

\* every kind of terminal status has been set and the worker has gone on to
\* another item after one of them
C3_Witness ==
    /\ Len(transfers) = 2
    /\ transfers[1].status \in Terminal
    /\ transfers[2].status \in Terminal
    /\ transfers[1].status # transfers[2].status
    /\ Finished(1) /\ Finished(2)

\* C4 as stated: an item the worker has finished is out of the in-flight map
\* and in exactly one of the completed list and the failed list
C4_Original ==
    \A i \in Items :
        Finished(i) =>
            /\ i \notin Active
            /\ (i \in Range(completed_transfers))
                   # (i \in Range(failed_transfers))

\* C5 as stated: every item the worker has processed had a `complete` event
\* published, whether it succeeded or failed
C5_Original ==
    \A i \in Items : Finished(i) => EventsOf("complete", i) # {}

\* C5 amended: an item the worker has processed had exactly one closing
\* event: `complete` if the copier returned (Completed or Skipped), `error`
\* and no `complete` if the copier failed
C5_CompleteOrError ==
    \A i \in Items :
        Finished(i) =>
            IF transfers[i].status = "failed"
            THEN /\ Cardinality(EventsOf("error", i)) = 1
                 /\ EventsOf("complete", i) = {}
            ELSE /\ Cardinality(EventsOf("complete", i)) = 1
                 /\ EventsOf("error", i) = {}

\* one processed item failed and one completed
C5_Witness ==
    \E i, j \in Items :
        /\ Finished(i) /\ transfers[i].status = "failed"
        /\ Finished(j) /\ transfers[j].status = "completed"

\* C6 as stated: the counts get_overall_progress returns satisfy
\* total = queued + active + completed + failed, also when the worker runs
\* while they are read
C6_Original ==
    Len(obs) = Len(ProgressLines) =>
        LET r == OverallProgress(obs)
        IN  r.total = r.queued + r.active + r.completed + r.failed

AliveCount == Cardinality({w \in 1..Len(threads) : is_alive(w)})

\* C7: at most one worker is alive; a thread is created only when none is
\* alive, and then exactly one
C7_SingleWorker ==
    [][/\ AliveCount' <= 1
       /\ Len(threads') # Len(threads) =>
              /\ AliveCount = 0
              /\ Len(threads') = Len(threads) + 1
              /\ AliveCount' = 1]_vars

\* a second worker was spawned after the first had exited, and it is at work
C7_Witness ==
    /\ Len(threads) = 2
    /\ ~is_alive(1) /\ is_alive(2)
    /\ InLoopBody(2)

\* the worker holds item i, which failed for a reason other than cancellation
FailedInHand(i) ==
    /\ i \in Items
    /\ transfers[i].status = "failed"
    /\ transfers[i].error # Cancelled
    /\ \E w \in 1..Len(threads) :
           /\ threads[w].transfer = i
           /\ threads[w].pc \in {"append_failed", "notify_error", "pop"}

\* C8: when an item has failed, the stop signal is not set and another item
\* is queued, the worker goes on to dequeue and start that item (unless the
\* stop signal is set in the meantime)
C8_FailureDoesNotStop ==
    \A i \in 1..MaxItems : \A j \in (i + 1)..MaxItems :
        (FailedInHand(i) /\ ~stop_event /\ queue # <<>> /\ Head(queue)[2] = j)
            ~> (stop_event \/ EventsOf("start", j) # {})

\* the first item failed without cancellation and the same worker started
\* the second
C8_Witness ==
    /\ Len(transfers) = 2 /\ Len(threads) = 1
    /\ transfers[1].status = "failed"
    /\ transfers[1].error \notin {Cancelled, None}
    /\ EventsOf("start", 2) # {}

\* C9: a failure that reached the worker is recorded on the item (status
\* Failed, error the captured reason), the item is appended to the failed
\* list and an `error` event carrying the reason is published for it
C9_FailureRecorded ==
    /\ \A w \in 1..Len(threads) :
         LET t == threads[w]
         IN  is_alive(w) /\ t.exc # None =>
               /\ t.pc \in {"append_failed", "notify_error", "pop"} =>
                      /\ transfers[t.transfer].status = "failed"
                      /\ transfers[t.transfer].error = t.exc
               /\ t.pc \in {"notify_error", "pop"} =>
                      t.transfer \in Range(failed_transfers)
               /\ t.pc = "pop" =>
                      \E k \in EventsOf("error", t.transfer) :
                          events[k].msg = t.exc
    /\ \A i \in Items :
         Finished(i) /\ transfers[i].status = "failed" =>
               /\ i \in Range(failed_transfers)
               /\ \E k \in EventsOf("error", i) :
                      events[k].msg = transfers[i].error

\* the worker has just handled a failure of each kind of origin: one raised
\* inside a copier's try block and one raised before it
C9_Witness ==
    /\ Len(transfers) = 2
    /\ Finished(1) /\ transfers[1].error = MkdirFailed
    /\ \E w \in 1..Len(threads) :
           /\ threads[w].pc = "pop" /\ threads[w].transfer = 2
           /\ threads[w].exc = SizeMismatch

\* C10: every callback subscribed to the channel when an event is published
\* is called for it, also after one that raised; no callback's exception
\* reaches the worker, and an item whose `complete` event was published
\* keeps the status the copier gave it
C10_HandlerIsolation ==
    /\ \A e \in 1..Len(events) :
         \A h \in 1..events[e].nh :
             \E c \in Range(calls) : c.pub = e /\ c.h = h
    /\ \A w \in 1..Len(threads) : threads[w].exc # "callback"
    /\ \A i \in Items :
         EventsOf("complete", i) # {} =>
             transfers[i].status \in {"completed", "skipped"}

\* a callback raised, the one subscribed after it was still called, and the
\* item went on to Completed and left the worker
C10_Witness ==
    \E c1, c2 \in Range(calls) :
        /\ c1.pub = c2.pub /\ c1.h = 1 /\ c1.raised /\ c2.h = 2
        /\ events[c1.pub].ch = "progress"
        /\ Finished(events[c1.pub].item)
        /\ transfers[events[c1.pub].item].status = "completed"

\* a worker holds an item its copier has completed, before the loop goes on
InHandCompleted(w) ==
    /\ threads[w].pc \in {"append", "notify_complete", "pop"}
    /\ Item(w).status = "completed"

\* the size of the source as the copier came across it: the chunks read up to
\* end of file, or the files the walk yielded (one unit each)
SourceSize(w) == IF Item(w).is_dir THEN Me(w).seen ELSE Me(w).chunk

\* the `progress` events of item i carry non-decreasing bytes_transferred
NonDecreasing(i) ==
    \A k1, k2 \in EventsOf("progress", i) :
        k1 < k2 => events[k1].bytes <= events[k2].bytes

\* C11 as stated: the `progress` events of a completed item carry
\* non-decreasing bytes_transferred and its final bytes_transferred equals
\* the size of the source, for a file and for a directory
C11_Original ==
    /\ \A i \in Items : transfers[i].status = "completed" => NonDecreasing(i)
    /\ \A w \in 1..Len(threads) :
         InHandCompleted(w) => Item(w).bytes_transferred = SourceSize(w)

\* C11 amended: the `progress` events of an item carry non-decreasing
\* bytes_transferred, none above the final value of a completed item; a
\* completed file ends with the size of the source, a completed directory
\* with the size of the files this run copied (one `progress` event each),
\* which is at most the size of the source
C11_ProgressMonotone ==
    /\ \A i \in Items :
         /\ NonDecreasing(i)
         /\ transfers[i].status = "completed" =>
                \A k \in EventsOf("progress", i) :
                    events[k].bytes <= transfers[i].bytes_transferred
    /\ \A w \in 1..Len(threads) :
         InHandCompleted(w) =>
             IF Item(w).is_dir
             THEN /\ Item(w).bytes_transferred <= SourceSize(w)
                  /\ Item(w).bytes_transferred =
                         Cardinality(EventsOf("progress", Me(w).transfer))
             ELSE Item(w).bytes_transferred = SourceSize(w)

\* a file of two chunks was completed after two `progress` events, and a
\* directory of two files was completed with one of them copied
C11_Witness ==
    \E i \in Items, w \in 1..Len(threads) :
        /\ Finished(i) /\ ~transfers[i].is_dir
        /\ transfers[i].status = "completed"
        /\ transfers[i].bytes_transferred = 2
        /\ Cardinality(EventsOf("progress", i)) = 2
        /\ InHandCompleted(w) /\ Item(w).is_dir
        /\ Me(w).seen = 2 /\ Item(w).bytes_transferred = 1

\* C12: the `complete` event of an item is published after all its `progress`
\* events: every `progress` event of the item precedes its `complete` event
C12_CompleteAfterProgress ==
    \A i \in Items :
        \A kc \in EventsOf("complete", i), kp \in EventsOf("progress", i) :
            kp < kc

\* a file and a directory both had `progress` events and then `complete`
C12_Witness ==
    \E i, j \in Items :
        /\ ~transfers[i].is_dir /\ transfers[j].is_dir
        /\ EventsOf("progress", i) # {} /\ EventsOf("complete", i) # {}
        /\ EventsOf("progress", j) # {} /\ EventsOf("complete", j) # {}

\* a failure has left the copier and the worker is handling it
Handling(w) ==
    threads[w].pc \in {"except", "append_failed", "notify_error", "pop"}

\* the reasons a file copy can fail for once the item is Transferring
InCopyReasons == {Cancelled, SizeMismatch, ChecksumFailed, OSErrorMsg}

\* C13 as stated: when a file copy has failed after the item became
\* Transferring, no destination file is left when the failure reaches the
\* worker
C13_Original ==
    \A w \in 1..Len(threads) :
        /\ threads[w].pc = "except"
        /\ ~Item(w).is_dir
        /\ Item(w).status = "transferring"
        => fs[Dst(w)] = "absent"

\* C13 amended: when a file copy has failed after the item became
\* Transferring, the copier has tried to delete the destination before the
\* failure reaches the worker; no destination file is left unless that
\* deletion itself failed, in which case the partial file stays; either way
\* the item ends Failed with the reason of the original failure
C13_CleanupBeforeFailure ==
    \A w \in 1..Len(threads) :
        /\ ( /\ threads[w].pc = "except"
             /\ ~Item(w).is_dir
             /\ Item(w).status = "transferring" ) => Me(w).cleanup # None
        /\ (Handling(w) /\ ~Item(w).is_dir /\ Me(w).cleanup # None) =>
               /\ Me(w).cleanup = "done" => fs[Dst(w)] = "absent"
               /\ Me(w).cleanup = "failed" => fs[Dst(w)] = "file"
               /\ Me(w).exc \in InCopyReasons
               /\ Me(w).pc # "except" =>
                      /\ Item(w).status = "failed"
                      /\ Item(w).error = Me(w).exc

\* a cancelled file copy and a copy that failed its checksum have both left
\* no destination file, and both items are Failed
C13_Witness ==
    \E i \in Items, w \in 1..Len(threads) :
        /\ Finished(i) /\ ~transfers[i].is_dir
        /\ transfers[i].error = Cancelled
        /\ fs[transfers[i].destination_path] = "absent"
        /\ Me(w).pc = "pop" /\ ~Item(w).is_dir
        /\ Me(w).exc = ChecksumFailed /\ Me(w).cleanup = "done"
        /\ fs[Dst(w)] = "absent"

\* C14 as stated: when a directory copy has been cancelled, no destination
\* root directory is left once the copier has unwound
C14_Original ==
    \A w \in 1..Len(threads) :
        (Handling(w) /\ Item(w).is_dir /\ Me(w).exc = Cancelled)
            => fs[Dst(w)] = "absent"

\* C14 amended: when a directory copy has observed the stop signal at one of
\* its checks, the copier has tried to remove the destination tree before it
\* unwinds; no destination root is left unless that removal itself failed,
\* in which case the root stays; either way the item ends Failed with the
\* cancellation reason
C14_CancelledTreeRemoved ==
    \A w \in 1..Len(threads) :
        (Handling(w) /\ Item(w).is_dir /\ Me(w).exc = Cancelled) =>
            /\ Me(w).cleanup # None
            /\ Me(w).cleanup = "done" => fs[Dst(w)] = "absent"
            /\ Me(w).cleanup = "failed" => fs[Dst(w)] = "dir"
            /\ Me(w).pc # "except" =>
                   /\ Item(w).status = "failed"
                   /\ Item(w).error = Cancelled

\* a directory copy was cancelled after it had copied a file: the root is
\* gone and the item is Failed
C14_Witness ==
    \E w \in 1..Len(threads) :
        /\ Me(w).pc = "pop" /\ Item(w).is_dir
        /\ Me(w).exc = Cancelled /\ Me(w).cleanup = "done"
        /\ Item(w).bytes_transferred = 1
        /\ Item(w).status = "failed"
        /\ fs[Dst(w)] = "absent"

\* item j asks for the same transfer as the earlier item i
SamePair(i, j) ==
    /\ i < j
    /\ transfers[i].source_path = transfers[j].source_path
    /\ transfers[i].destination_path = transfers[j].destination_path
    /\ transfers[i].is_dir = transfers[j].is_dir

\* no item enqueued between i and j has the destination of j
NoneBetween(i, j) ==
    \A k \in Items :
        (i < k /\ k < j) =>
            transfers[k].destination_path # transfers[j].destination_path

InWalk == {"d_walk", "d_file", "d_copy", "d_progress", "d_complete"}

\* C16: a file of the tree whose copy fails does not end the directory copy:
\* the walk goes on with the next file, the failure never reaches the
\* copier's cleanup or the worker (only cancellation does), and the item is
\* completed with no `error` event; a directory item fails only because its
\* root could not be created or because it was cancelled
C16_FaultIsolation ==
    /\ \A w \in 1..Len(threads) :
         Me(w).warned > 0 =>
             /\ Item(w).is_dir
             /\ Item(w).bytes_transferred + Me(w).warned <= Me(w).seen
             /\ \/ Me(w).pc \in InWalk /\ Item(w).status = "transferring"
                \/ InHandCompleted(w) /\ EventsOf("error", Me(w).transfer) = {}
                \/ /\ Me(w).pc = "d_cleanup" \/ Handling(w)
                   /\ Me(w).exc = Cancelled
    /\ \A i \in Items :
         (transfers[i].is_dir /\ transfers[i].status = "failed") =>
             transfers[i].error \in {MkdirFailed, Cancelled}

\* in a tree of two files the copy of one failed, the other was copied, and
\* the directory item was completed and announced without any `error` event
C16_Witness ==
    \E w \in 1..Len(threads) :
        /\ Me(w).pc = "pop" /\ InHandCompleted(w) /\ Item(w).is_dir
        /\ Me(w).warned = 1 /\ Me(w).seen = 2
        /\ Item(w).bytes_transferred = 1
        /\ EventsOf("error", Me(w).transfer) = {}
        /\ EventsOf("complete", Me(w).transfer) # {}

\* C17: a file item completed with checksum verification enabled has a
\* destination whose digest and size equal the source's, that is, the
\* destination holds the bytes of the source; without checksum verification
\* a completed file still has the size of the source
C17_RoundTrip ==
    \A w \in 1..Len(threads) :
        (InHandCompleted(w) /\ ~Item(w).is_dir) =>
            /\ fs[Dst(w)] = "file"
            /\ getsize(Me(w).written) = getsize("source")
            /\ config.verify_checksum =>
                   /\ _calculate_checksum(Me(w).written)
                          = _calculate_checksum("source")
                   /\ Me(w).written = "source"

\* a file of two chunks was completed with checksum verification enabled
C17_Witness ==
    \E w \in 1..Len(threads) :
        /\ InHandCompleted(w) /\ ~Item(w).is_dir
        /\ config.verify_checksum
        /\ Me(w).chunk = 2 /\ Me(w).written = "source"

\* C18 as stated: the id add_transfer returns differs from every id it has
\* returned before, also from the ids of items that have finished and that
\* the manager no longer holds
C18_Original ==
    \A i, j \in Items : i # j => transfers[i].id # transfers[j].id

C20_Original ==
    \A i \in Items :
        (Finished(i) /\ transfers[i].status = "failed") =>
            /\ get_transfer_status(transfers[i].id, TRUE) # NotFound
            /\ get_transfer_status(transfers[i].id, TRUE).status = "failed"
            /\ get_transfer_status(transfers[i].id, TRUE).error = transfers[i].error
            /\ i \in Range(failed_transfers)

\* ---------------------------------------------------------------- C21
\* C21 (as stated): an item never has more bytes transferred than its total
\* size; in particular an item with bytes_transferred > 0 has a total_bytes
\* at least that large.
C21_Original ==
    \A i \in Items :
        transfers[i].bytes_transferred > 0 =>
            transfers[i].total_bytes >= transfers[i].bytes_transferred

\* ---------------------------------------------------------------- C22
\* the call of get_overall_progress has read all its values and is about to
\* return
AboutToReturn == cpc = "progress" /\ Len(obs) = Len(ProgressLines)

\* C22: the percentage get_overall_progress returns is 0 when the total it
\* returns is 0, otherwise the returned completed count over the returned
\* total, times 100 (in whole percent), and it lies between 0 and 100, even
\* though the worker goes on between the reads of total and completed.
C22_PercentInRange ==
    AboutToReturn =>
        LET r == OverallProgress(obs)
        IN  /\ r.total = 0 => r.progress = 0
            /\ r.total > 0 => r.progress = (r.completed * 100) \div r.total
            /\ r.completed <= r.total
            /\ r.progress >= 0 /\ r.progress <= 100

\* a call returns 50 percent: the one item was counted twice in total, as
\* queued and as active, and the worker completed it before the next read
C22_Witness ==
    /\ AboutToReturn
    /\ OverallProgress(obs).total = 2
    /\ OverallProgress(obs).completed = 1
    /\ OverallProgress(obs).progress = 50

\* ---------------------------------------------------------------- C23
\* the callback invocations made for publication e, in the order made
CallsOf(e) == SelectSeq(calls, LAMBDA c : c.pub = e)

\* C23: publishing an event calls every callback subscribed to the event's
\* channel at that moment, once each and in the order of subscription, and
\* calls no callback of another channel.
C23_Delivery ==
    \A e \in 1..Len(events) :
        /\ Len(CallsOf(e)) = events[e].nh
        /\ \A k \in 1..Len(CallsOf(e)) :
             /\ CallsOf(e)[k].h = k
             /\ CallsOf(e)[k].ch = events[e].ch
             /\ CallsOf(e)[k].raised
                  = (callbacks[events[e].ch][k] = "raises")

\* an event went to the two callbacks of its channel in order, and a later
\* event on another channel, which has no callback, went to neither of them
C23_Witness ==
    \E e1, e2 \in 1..Len(events) :
        /\ e1 < e2
        /\ events[e1].ch # events[e2].ch
        /\ events[e1].nh = 2
        /\ CallsOf(e1)[1].h = 1 /\ CallsOf(e1)[2].h = 2
        /\ events[e2].nh = 0
        /\ CallsOf(e2) = <<>>

\* ---------------------------------------------------------------- C24
\* C24 (as stated): no value handed to a caller changes afterwards.  The
\* callbacks of publication e were handed the item events[e].item and read
\* events[e].bytes from it during the call; reading the same argument now
\* gives the same bytes.
C24_Original ==
    \A e \in 1..Len(events) :
        events[e].nh > 0 =>
            transfers[events[e].item].bytes_transferred = events[e].bytes

\* ---------------------------------------------------------------- C25
\* the worker threads that hold item i inside an iteration of their loop
Holders(i) ==
    {w \in 1..Len(threads) : threads[w].transfer = i /\ InLoopBody(w)}

\* C25: an item is dequeued and dispatched at most once and has at most one
\* worker at any time: it is queued at most once, never queued while a
\* worker holds it, never queued again, has at most one `start` event and at
\* most one holder, and only a step taken while a worker holds it changes it,
\* whatever the caller does with add_transfer, start and stop.
C25_SingleWriter ==
    /\ [](\A i \in Items :
            /\ Cardinality({k \in 1..Len(queue) : queue[k][2] = i}) <= 1
            /\ Cardinality(Holders(i)) <= 1
            /\ Holders(i) # {} => Dequeued(i)
            /\ Cardinality(EventsOf("start", i)) <= 1)
    /\ [][\A i \in Items :
            /\ Dequeued(i) => i \notin {q[2] : q \in Range(queue')}
            /\ transfers'[i] # transfers[i] => Holders(i) # {}]_vars

\* the second worker thread holds the second item and is copying it, after
\* the first item was handled; each item was dispatched once
C25_Witness ==
    /\ Len(threads) = 2
    /\ Len(transfers) = 2
    /\ Finished(1)
    /\ Holders(2) = {2}
    /\ transfers[2].status = "transferring"
    /\ Cardinality(EventsOf("start", 1)) = 1
    /\ Cardinality(EventsOf("start", 2)) = 1

\* ---------------------------------------------------------------- C26
\* C26: an item becomes Skipped only in the step in which the file copier
\* examines its destination and finds it present (a file or a directory);
\* the item is a file item that was Pending, and is Skipped with the reason
\* AlreadyExists.  An item whose destination was absent at that examination
\* has left Pending and never becomes Skipped; the per-file skip inside a
\* directory copy leaves the directory item's status alone.
C26_SkipOnlyIfExists ==
    /\ [](\A i \in Items :
            transfers[i].status = "skipped" =>
                ~transfers[i].is_dir /\ transfers[i].error = AlreadyExists)
    /\ [][\A i \in Items :
            /\ (transfers'[i].status = "skipped"
                  /\ transfers[i].status # "skipped") =>
                 /\ transfers[i].status = "pending"
                 /\ \E w \in Holders(i) : threads[w].pc = "f_exists"
                 /\ fs'[transfers[i].destination_path] \in {"file", "dir"}
            /\ (\E w \in Holders(i) :
                    /\ threads[w].pc = "f_exists"
                    /\ threads'[w].pc # "f_exists"
                    /\ fs'[transfers[i].destination_path] = "absent") =>
                 transfers'[i].status = "transferring"
            /\ transfers[i].status \in {"transferring"} \cup Terminal =>
                 (transfers'[i].status = "skipped"
                    <=> transfers[i].status = "skipped")]_vars

\* both outcomes of the examination have happened: one file item was Skipped
\* because its destination was there, another found none and was copied
C26_Witness ==
    \E i, j \in Items :
        /\ transfers[i].status = "skipped"
        /\ fs[transfers[i].destination_path] \in {"file", "dir"}
        /\ ~transfers[j].is_dir
        /\ transfers[j].status = "completed"
        /\ transfers[j].bytes_transferred > 0

\* ---------------------------------------------------------------- C27
\* the reasons of failures that are not cancellations
GenuineReasons == {SizeMismatch, ChecksumFailed, MkdirFailed, OSErrorMsg}

\* the places where a copier tests the stop signal
CancelChecks == {"f_check", "d_walk", "d_file"}

\* C27: cancellation is told apart from every genuine failure: its reason is
\* none of theirs, a copier raises it exactly when one of its checks finds
\* the stop signal set, and the item then ends Failed with the reason raised.
C27_CancelDistinct ==
    /\ [](/\ Cancelled \notin GenuineReasons
          /\ \A w \in 1..Len(threads) :
               threads[w].pc \in {"append_failed", "notify_error"} =>
                 /\ transfers[threads[w].transfer].status = "failed"
                 /\ transfers[threads[w].transfer].error = threads[w].exc
                 /\ threads[w].exc \in GenuineReasons \cup {Cancelled})
    /\ [][\A w \in 1..Len(threads) :
            threads'[w].exc \notin {None, threads[w].exc} =>
                (threads'[w].exc = Cancelled
                   <=> (stop_event /\ threads[w].pc \in CancelChecks))]_vars

\* one item failed for a genuine reason and a later one was cancelled; the
\* two are told apart by their recorded reasons
C27_Witness ==
    \E i, j \in Items :
        /\ Finished(i) /\ Finished(j)
        /\ transfers[i].status = "failed"
        /\ transfers[i].error \in GenuineReasons
        /\ transfers[j].status = "failed"
        /\ transfers[j].error = Cancelled
        /\ transfers[j].bytes_transferred > 0

\* ---------------------------------------------------------------- C28
\* the worker threads inside the chunk loop of a file copy
InChunkLoop(w) == threads[w].pc \in {"f_check", "f_read", "f_progress"}

\* C28 (as stated): the stop signal is checked after a chunk is written and
\* before it is counted, so no chunk is counted while the signal is set.
C28_Original ==
    [][\A w \in 1..Len(threads) :
          (InChunkLoop(w)
             /\ transfers'[threads[w].transfer].bytes_transferred
                  > transfers[threads[w].transfer].bytes_transferred)
            => ~stop_event]_vars

\* C28 (amended): the stop signal is checked at the head of the chunk loop,
\* before a chunk is read: if it is set the copy aborts with Cancelled and
\* nothing is counted or published, otherwise the chunk is read.  A chunk
\* that was read and written is always counted, and its `progress` event is
\* always published before the next check, so at every check, and when the
\* copy is cancelled, every chunk written has been counted and published.
C28_CheckBeforeRead ==
    /\ [](\A w \in 1..Len(threads) :
            LET i == threads[w].transfer
            IN  /\ threads[w].pc \in {"f_check", "f_read"} =>
                     /\ transfers[i].bytes_transferred = threads[w].chunk
                     /\ Cardinality(EventsOf("progress", i)) = threads[w].chunk
                /\ threads[w].pc = "f_progress" =>
                     /\ transfers[i].bytes_transferred = threads[w].chunk
                     /\ Cardinality(EventsOf("progress", i))
                          = threads[w].chunk - 1
                /\ (threads[w].pc = "f_cleanup"
                      /\ threads[w].exc = Cancelled) =>
                     /\ transfers[i].bytes_transferred = threads[w].chunk
                     /\ Cardinality(EventsOf("progress", i)) = threads[w].chunk)
    /\ [][\A w \in 1..Len(threads) :
            LET i == threads[w].transfer
            IN  /\ (threads[w].pc = "f_check" /\ threads'[w].pc # "f_check") =>
                     /\ transfers' = transfers /\ events' = events
                     /\ IF stop_event
                        THEN /\ threads'[w].pc = "f_cleanup"
                             /\ threads'[w].exc = Cancelled
                        ELSE threads'[w].pc = "f_read"
                /\ (InChunkLoop(w) /\ transfers'[i] # transfers[i]) =>
                     /\ threads[w].pc = "f_read"
                     /\ threads'[w].pc = "f_progress"
                     /\ threads'[w].chunk = threads[w].chunk + 1
                     /\ transfers'[i].bytes_transferred
                          = transfers[i].bytes_transferred + 1
                /\ (threads[w].pc = "f_progress"
                      /\ threads'[w].pc # "f_progress") =>
                     /\ threads'[w].pc = "f_check"
                     /\ Len(events') = Len(events) + 1
                     /\ events'[Len(events')].ch = "progress"
                     /\ events'[Len(events')].item = i
                     /\ events'[Len(events')].bytes
                          = transfers[i].bytes_transferred]_vars

\* a copy was cancelled at the check after its second chunk: both chunks are
\* counted and both `progress` events are out
C28_Witness ==
    \E w \in 1..Len(threads) :
        /\ stop_event
        /\ threads[w].pc = "f_cleanup"
        /\ threads[w].exc = Cancelled
        /\ threads[w].chunk = 2
        /\ transfers[threads[w].transfer].bytes_transferred = 2
        /\ Cardinality(EventsOf("progress", threads[w].transfer)) = 2

\* ---------------------------------------------------------------- C29
\* a copier that has passed its check and has a chunk or a file in hand
InHand(w) == threads[w].pc \in {"f_read", "d_copy"}

\* C29: once the stop signal is set it stays set while a worker holds an
\* item, and from then on no copier takes a further chunk or file in hand:
\* the one it has in hand when the signal is set is the last it writes, and
\* the next check it reaches aborts the copy with Cancelled.
C29_BoundedResponse ==
    [][\A w \in 1..Len(threads) :
          LET i == threads[w].transfer
          IN  /\ (InLoopBody(w) /\ transfers'[i].bytes_transferred
                                     # transfers[i].bytes_transferred) =>
                   /\ InHand(w)
                   /\ threads'[w].pc \in {"f_progress", "d_progress"}
                   /\ transfers'[i].bytes_transferred
                        = transfers[i].bytes_transferred + 1
              /\ (stop_event /\ InLoopBody(w)) =>
                   /\ stop_event'
                   /\ ~InHand(w) => threads'[w].pc \notin {"f_read", "d_copy"}
                   /\ (threads[w].pc = "f_check"
                         /\ threads'[w].pc # "f_check") =>
                        /\ threads'[w].pc = "f_cleanup"
                        /\ threads'[w].exc = Cancelled
                   /\ (threads[w].pc \in {"d_file", "d_walk"}
                         /\ threads'[w].pc \notin {"d_file", "d_walk",
                                                    "d_complete"}) =>
                        /\ threads'[w].pc = "d_cleanup"
                        /\ threads'[w].exc = Cancelled]_vars

\* the signal is set while a directory copier, one file already copied, has
\* the next file in hand: this file is the one further file
C29_Witness ==
    \E w \in 1..Len(threads) :
        /\ stop_event
        /\ threads[w].pc = "d_copy"
        /\ threads[w].file = 1
        /\ transfers[threads[w].transfer].bytes_transferred = 1

\* ---------------------------------------------------------------- C30
\* positions of all the events published for item i
AllEventsOf(i) == {k \in 1..Len(events) : events[k].item = i}

\* C30: an item still queued has no event; an item the worker has dequeued
\* has exactly one `start` event as soon as the worker has passed the
\* statement that publishes it, never more than one, and that event comes
\* before every `progress`, `complete` and `error` event of the item.
C30_StartFirst ==
    \A i \in Items :
        /\ ~Dequeued(i) => AllEventsOf(i) = {}
        /\ Cardinality(EventsOf("start", i)) <= 1
        /\ (Dequeued(i)
              /\ \A w \in Holders(i) : threads[w].pc # "notify_start") =>
             Cardinality(EventsOf("start", i)) = 1
        /\ \A k \in AllEventsOf(i) :
             events[k].ch # "start" =>
                 \E s \in EventsOf("start", i) : s < k

\* one item's events are start, progress, complete in this order, and the
\* other item's are start, then error
C30_Witness ==
    \E i, j \in Items :
        /\ Finished(i) /\ Finished(j)
        /\ \E s \in EventsOf("start", i), p \in EventsOf("progress", i),
              c \in EventsOf("complete", i) : s < p /\ p < c
        /\ \E s \in EventsOf("start", j), e \in EventsOf("error", j) : s < e
        /\ EventsOf("complete", j) = {}

\* ---------------------------------------------------------------- C31
\* C31 (as stated): a directory transfer that fails deletes only what it
\* created.  The destination root an earlier, completed directory transfer
\* left behind existed before the later transfer to the same root began, so
\* it is still there when the later transfer has failed.
C31_Original ==
    \A i, j \in Items :
        (/\ i < j
         /\ transfers[i].destination_path = transfers[j].destination_path
         /\ NoneBetween(i, j)
         /\ transfers[i].is_dir /\ transfers[i].status = "completed"
         /\ transfers[j].is_dir /\ transfers[j].status = "failed"
         /\ Finished(j))
            => fs[transfers[j].destination_path] = "dir"

\* ---------------------------------------------------------------- C32
\* C32: in a directory copy only the step that copies a file adds to
\* bytes_transferred, by that file's size (one unit), and it is followed by
\* one `progress` event carrying the new value; a file that exists at the
\* destination and a file whose copy fails add nothing and publish nothing.
\* So a directory item that completes has as many bytes as files copied, one
\* `progress` event each, and none for the files that failed.
C32_CopiedFilesCounted ==
    /\ [](\A w \in 1..Len(threads) :
            LET i == threads[w].transfer
                n == Cardinality(EventsOf("progress", i))
            IN  /\ threads[w].pc \in {"d_walk", "d_file", "d_copy",
                                      "d_complete"} =>
                     transfers[i].bytes_transferred = n
                /\ threads[w].pc = "d_progress" =>
                     transfers[i].bytes_transferred = n + 1
                /\ (InHandCompleted(w) /\ transfers[i].is_dir) =>
                     /\ transfers[i].bytes_transferred = n
                     /\ n <= threads[w].seen - threads[w].warned
                     /\ \A k \in EventsOf("progress", i) :
                          events[k].bytes
                            = Cardinality({m \in EventsOf("progress", i) :
                                             m <= k}))
    /\ [][\A w \in 1..Len(threads) :
            LET i == threads[w].transfer
            IN  (threads[w].pc = "d_copy" /\ threads'[w].pc # "d_copy") =>
                  IF threads'[w].pc = "d_progress"
                  THEN /\ transfers'[i].bytes_transferred
                            = transfers[i].bytes_transferred + 1
                       /\ threads'[w].warned = threads[w].warned
                  ELSE /\ threads'[w].pc = "d_file"
                       /\ transfers'[i] = transfers[i]
                       /\ events' = events]_vars

\* a directory of two files has completed: one file existed at the
\* destination and the other was copied, so one unit is counted and one
\* `progress` event is out
C32_Witness ==
    \E w \in 1..Len(threads) :
        /\ InHandCompleted(w) /\ Item(w).is_dir
        /\ Me(w).seen = 2 /\ Me(w).warned = 0
        /\ Item(w).bytes_transferred = 1
        /\ Cardinality(EventsOf("progress", Me(w).transfer)) = 1

\* ---------------------------------------------------------------- C33
\* C33 (as stated): once the stop signal is set the worker dequeues no
\* further item: an item that is queued and Pending while the signal is set
\* is still queued and Pending after every step.
C33_Original ==
    [][\A i \in Items :
          (stop_event /\ ~Dequeued(i) /\ transfers[i].status = "pending") =>
              (~Dequeued(i)' /\ transfers'[i].status = "pending")]_vars

\* ---------------------------------------------------------------- C34
\* no add_transfer is half done and no worker is inside a loop iteration
Quiescent == cpc = "idle" /\ \A w \in 1..Len(threads) : ~InLoopBody(w)

\* C34 (as stated): at a quiescent point the total get_overall_progress
\* computes is the number of items enqueued so far.
C34_Original == Quiescent => ReadOf("total") = Len(transfers)

\* ---------------------------------------------------------------- C35
\* C35 (as stated): when no worker is inside a loop iteration and no
\* add_transfer is half done, active_transfers holds no item whose status is
\* terminal.
C35_Original ==
    Quiescent =>
        \A k \in DOMAIN active_transfers :
            transfers[active_transfers[k]].status \notin Terminal

\* ---------------------------------------------------------------- C36
\* C36 (as stated): an item that is queued when start() returns is
\* eventually handled if stop() is not called.  When start() finds the worker
\* alive it changes nothing, so the state it returns in is any state with
\* the item queued, the caller idle, the worker alive and the stop signal
\* clear.
C36_Original ==
    \A i \in 1..MaxItems :
        (i \in Items /\ ~Dequeued(i) /\ cpc = "idle" /\ WorkerRunning
           /\ ~stop_event)
            ~> (stop_event
                  \/ (i \in Items /\ transfers[i].status \in Terminal))

\* ---------------------------------------------------------------- C37
\* C37 (as stated): an item that is Pending when a start() that follows
\* stop() returns is eventually handled.  When stop() has returned on its
\* wait bound the worker is still alive and the signal is set, start() then
\* changes nothing, so the state it returns in is any state with the item
\* queued, the caller idle, the worker alive and the stop signal set; a
\* further stop() puts the caller into the join.
C37_Original ==
    \A i \in 1..MaxItems :
        (i \in Items /\ ~Dequeued(i) /\ cpc = "idle" /\ WorkerRunning
           /\ stop_event)
            ~> (cpc = "join"
                  \/ (i \in Items /\ transfers[i].status \in Terminal))

\* ---------------------------------------------------------------- C38
\* C38 (as stated): get_transfer_status returns a snapshot or not-found and
\* never raises, for an id it does not know and for the id of a queued file
\* or directory item, whether or not a file is found at the item's source
\* path (nothing has looked at the source of a queued item yet).
C38_Original ==
    /\ get_transfer_status(0, TRUE) = NotFound
    /\ \A i \in Items :
         (~Dequeued(i) /\ transfers[i].id \in DOMAIN active_transfers) =>
             \A source_found \in BOOLEAN :
                 "raised" \notin
                     DOMAIN get_transfer_status(transfers[i].id, source_found)

\* ---------------------------------------------------------------- C39
\* the steps of _process_queue that follow the return of a copier
AfterCopier == {"append", "notify_complete", "pop"}

\* C39: when the file copier finds its destination present it marks the item
\* Skipped in that same step and returns: it does not open, write or remove
\* the destination.  A Skipped item is only ever in the steps after the
\* copier, has no byte counted, and no step taken while it is in hand changes
\* what is at any destination path.
C39_ExistingUntouched ==
    /\ [](\A w \in 1..Len(threads) :
            (InLoopBody(w) /\ Item(w).status = "skipped") =>
                /\ threads[w].pc \in AfterCopier
                /\ Item(w).bytes_transferred = 0
                /\ fs[Dst(w)] \in {"file", "dir"})
    /\ [][\A w \in 1..Len(threads) :
            /\ (threads[w].pc = "f_exists" /\ threads'[w].pc # "f_exists"
                  /\ fs'[Dst(w)] \in {"file", "dir"}) =>
                 /\ threads'[w].pc = "append"
                 /\ transfers'[threads[w].transfer].status = "skipped"
            /\ (InLoopBody(w) /\ Item(w).status = "skipped") => fs' = fs]_vars

\* a file item whose destination was a file has been handled: it is Skipped,
\* the file is still there, and no `progress` event was published for it
C39_Witness ==
    \E i \in Items :
        /\ Finished(i)
        /\ transfers[i].status = "skipped"
        /\ fs[transfers[i].destination_path] = "file"
        /\ EventsOf("progress", i) = {}
        /\ EventsOf("complete", i) # {}

\* ---------------------------------------------------------------- C40
\* run begins the copy of a file: it emits file_started for it
BeginsFile == run_pc = "file_started" /\ run_pc' = "copy"

\* run emits the finished signal
EmitsFinished == run_pc = "finished" /\ run_pc' = "end"

\* C40 (as stated): while the worker is paused and not cancelled it begins
\* no file copy, once it is cancelled it begins none either, and it emits
\* `finished` only if it is not cancelled.
C40_Original ==
    [][/\ _is_paused => ~BeginsFile
       /\ _is_canceled => ~BeginsFile
       /\ EmitsFinished => ~_is_canceled]_vars

\* run is at the tests it makes before each file (lines 54-62)
AtTests == run_pc \in {"check", "wait", "msleep", "recheck"}

\* C40 (amended): the flags are tested before each file and after the last
\* one, nowhere else.  A worker in its wait loop stays there while it is
\* paused and not cancelled; when it is no longer paused it goes on to the
\* next file; when it is cancelled at its tests it leaves the loop without
\* beginning a file, and cancellation is never withdrawn.  A file is begun
\* only after the tests for it were passed, so a pause() or stop() that
\* comes after them lets that one file be copied.  `finished` is emitted
\* exactly when the test after the loop finds the worker not cancelled, at
\* most once, and a stop() after that test does not hold it back.
C40_PauseAtFileBoundary ==
    /\ [](/\ Cardinality({k \in 1..Len(emitted) :
                            emitted[k][1] = "finished"}) <= 1
          /\ \A k \in 1..Len(emitted) :
               emitted[k][1] = "finished" =>
                   k = Len(emitted) /\ run_pc = "end")
    /\ [][/\ (_is_paused /\ ~_is_canceled /\ run_pc \in {"wait", "msleep"})
                => run_pc' \in {"wait", "msleep"}
          /\ (~_is_paused /\ run_pc = "wait" /\ run_pc' # "wait")
                => run_pc' = "recheck"
          /\ (~_is_canceled /\ run_pc = "recheck" /\ run_pc' # "recheck")
                => run_pc' = "file_started"
          /\ (_is_canceled /\ AtTests)
                => (AtTests' \/ run_pc' = "final")
          /\ (_is_canceled /\ run_pc \in {"check", "recheck"}
                /\ run_pc' # run_pc) => run_pc' = "final"
          /\ _is_canceled => _is_canceled'
          /\ (run_pc' = "file_started" /\ run_pc # "file_started")
                => (run_pc = "recheck" /\ ~_is_canceled)
          /\ BeginsFile => emitted' = Append(emitted,
                                             <<"file_started", run_i + 1>>)
          /\ (run_pc' = "finished" /\ run_pc # "finished")
                => (run_pc = "final" /\ ~_is_canceled)
          /\ emitted' # emitted =>
                (emitted'[Len(emitted')][1] = "finished" <=> EmitsFinished)
       ]_vars

\* the worker copied the first file, was stopped while paused and has left
\* run: the second file was not begun and `finished` was not emitted
C40_Witness ==
    /\ _is_paused /\ _is_canceled
    /\ run_pc = "end"
    /\ emitted = <<<<"file_started", 1>>, <<"file_completed", 1>>>>

====
